---- MODULE Spec2Model ----
(***************************************************************************)
(* Spelling B-: the daily game session engine of src/app/game/page.tsx     *)
(* (SpellingGame component), with the persistence hook useGameState and    *)
(* the streak hook useStreak of src/hooks/useGameState.ts.                  *)
(*                                                                          *)
(* React state is modelled after every render has settled: one action is   *)
(* one event handler (click, key, timer callback, fetch completion, page   *)
(* load) together with the effects that its state updates trigger.         *)
(* Strings are sequences of one-character strings; calendar dates          *)
(* ("YYYY-MM-DD" in America/Los_Angeles) are day numbers counted from      *)
(* 2023-01-01, instants are hours counted from 2023-01-01T00:00Z.          *)
(***************************************************************************)
EXTENDS Integers, Sequences, FiniteSets, TLC

VARIABLES
    today,           \* calendar date returned by getTodayDate() now
    viewerZone,      \* time zone of the browser running the page
    gameMode,        \* useState<GameMode>
    difficulty,      \* useState<Difficulty>
    allWords,        \* useState<Word[]> (the loaded pool)
    selectedWords,   \* useState<Word[]> (the words of the session)
    isLoading,       \* useState(true)
    showModeSelect,  \* useState(true)
    gameData,        \* useGameState(...).state
    streak,          \* useStreak().streak
    localStorage,    \* the two keys spellingb_game_state, spellingb_streak
    pendingTick,     \* React: the timer's update not rendered yet (<<>> if none)
    staleKeydown,    \* React: the keydown listener attached is still the one
                     \* of the render before the session ended
    sharedDayNumber, \* share.ts: dayNumber of the ShareData last handed to
                     \* shareResults (NoShare before the first share)
    shuffleCall,     \* page.tsx: the locals of a call of deterministicShuffle
                     \* that is running (NoCall outside the selection model)
    dailyDoneToday   \* history: a Daily session has finished on the day `today`

vars == <<today, viewerZone, gameMode, difficulty, allWords, selectedWords,
          isLoading, showModeSelect, gameData, streak, localStorage,
          pendingTick, staleKeydown, sharedDayNumber, shuffleCall, dailyDoneToday>>

pageVars == <<gameMode, difficulty, allWords, selectedWords, isLoading,
              showModeSelect, gameData>>

----------------------------------------------------------------------------
(* Bounds of the model *)

\* first calendar day of the run: 2023-11-04, the day before US DST ends
FirstDay == 307
\* number of midnights a run may cross
MaxDays == 1
\* session length in seconds (the page uses 60; scaled down for checking)
TOTAL_TIME == 1
\* longest text the player types into userInput
MaxInput == 1
\* SpecStreak: cap on totalGamesPlayed, and number of midnights crossed
MaxGames == 4
StreakDays == 3

LastDay == FirstDay + MaxDays
StreakLastDay == FirstDay + StreakDays

----------------------------------------------------------------------------
(* Program constants *)

WORDS_PER_GAME == 3
\* lastPlayedDate: null
NoDate == 0 - 1
\* no ShareData has been built yet
NoShare == NoDate

\* no call of deterministicShuffle is running
NoCall == [phase |-> "none"]

Difficulties == {"easy", "medium", "hard"}
GameModes == {"daily", "practice"}
Zones == {"UTC", "America/Los_Angeles", "Asia/Tokyo"}

\* keys that reach userInput: e.key matching /[a-z]/i, or an on-screen key
Keys == {"a", "A"}

\* the rows of table audio_files that pass the validity filter of fetchWords
Pool ==
    << [id |-> 1, word |-> <<"a">>,       difficulty |-> "easy"],
       [id |-> 2, word |-> <<"A", " ">>,  difficulty |-> "easy"],
       [id |-> 3, word |-> <<" ", "a">>,  difficulty |-> "easy"] >>

----------------------------------------------------------------------------
(* String.prototype.toLowerCase and String.prototype.trim *)

LowerChar(c) ==
    CASE c = "A" -> "a"
      [] OTHER -> c

toLowerCase(s) == [i \in 1..Len(s) |-> LowerChar(s[i])]

RECURSIVE trimStart(_)
trimStart(s) ==
    IF s # <<>> /\ Head(s) = " " THEN trimStart(Tail(s)) ELSE s

RECURSIVE trimEnd(_)
trimEnd(s) ==
    IF s # <<>> /\ s[Len(s)] = " " THEN trimEnd(SubSeq(s, 1, Len(s) - 1)) ELSE s

trim(s) == trimEnd(trimStart(s))

\* str.slice(0, -1)
dropLast(s) == IF s = <<>> THEN s ELSE SubSeq(s, 1, Len(s) - 1)

----------------------------------------------------------------------------
(* Dates *)

\* the one DST end inside the run: 2023-11-05 02:00 PDT = 09:00Z
DstEndDay == FirstDay + 1
DstEndInstant == 24 * DstEndDay + 9

\* local time = UTC + UtcOffset, for the instant t (hours)
UtcOffset(zone, t) ==
    IF zone = "UTC" THEN 0
    ELSE IF zone = "Asia/Tokyo" THEN 9
    ELSE IF t < DstEndInstant THEN 0 - 7 ELSE 0 - 8

\* the UTC instant of the local wall-clock hour w
WallToUtc(zone, w) ==
    IF zone = "UTC" THEN w
    ELSE IF zone = "Asia/Tokyo" THEN w - 9
    ELSE IF w + 7 < DstEndInstant THEN w + 7 ELSE w + 8

\* new Date(getTodayDate()); setDate(getDate() - 1); toISOString().split("T")[0]
\* new Date("YYYY-MM-DD") is UTC midnight, setDate works on local wall-clock
\* time, toISOString prints the UTC date
getYesterdayDate(zone, day) ==
    LET utcMidnight == 24 * day
        wall        == utcMidnight + UtcOffset(zone, utcMidnight)
        wallBefore  == wall - 24
    IN  WallToUtc(zone, wallBefore) \div 24

----------------------------------------------------------------------------
(* Word selection *)

\* one step of the generator returned by seedRandom:
\* value = (value * 9301 + 49297) % 233280, with the product taken as
\* 9301 = 93 * 100 + 1 and reduced in between, which gives the same number
\* and keeps every intermediate result within 32 bits
lcgNext(value) ==
    ((((value * 93) % 233280) * 100) + (value % 233280) + 49297) % 233280

\* an index drawn from 0 .. i + 1
swapIndex_offByOne(value, i) == (value * (i + 2)) \div 233280

\* j = Math.floor(rand() * (i + 1)), where rand() is value / 233280
swapIndex(value, i) == (value * (i + 1)) \div 233280

Swap(arr, i, j) == [arr EXCEPT ![i] = arr[j], ![j] = arr[i]]

\* the loop of deterministicShuffle from 0-based index i down to 1
RECURSIVE shuffleLoop(_, _, _)
shuffleLoop(arr, value, i) ==
    IF i <= 0 THEN arr
    ELSE LET v == lcgNext(value)
             j == swapIndex(v, i)
         IN  shuffleLoop(Swap(arr, i + 1, j + 1), v, i - 1)

\* a generator that is not seeded again once a selection has been made
deterministicShuffle_notReseeded(array, seed) ==
    shuffleLoop(array, IF selectedWords = <<>> THEN seed ELSE lcgNext(seed),
                Len(array) - 1)

deterministicShuffle(array, seed) == shuffleLoop(array, seed, Len(array) - 1)

\* a filter that lets every word through
filterByDifficulty_none(wordList, diff) == wordList

filterByDifficulty(wordList, diff) ==
    SelectSeq(wordList, LAMBDA w : w.difficulty = diff)

firstWords(wordList) ==
    SubSeq(wordList, 1, IF Len(wordList) < WORDS_PER_GAME THEN Len(wordList)
                        ELSE WORDS_PER_GAME)

\* the browser's own midnight of that date, without the Los Angeles offset
getLaMidnightUtc_browserMidnight(zone, day) == WallToUtc(zone, 24 * day)

\* getLaMidnightUtc: the offset is the Los Angeles offset at the instant of
\* the browser's local midnight of that date (new Date("...T00:00:00"))
getLaMidnightUtc(zone, day) ==
    LET localMidnight == WallToUtc(zone, 24 * day)
        offset        == UtcOffset("America/Los_Angeles", localMidnight)
    IN  24 * day - offset

\* diffDays: whole days from referenceDate 2023-01-01T00:00Z
diffDays(zone, day) == getLaMidnightUtc(zone, day) \div 24

difficultyOffset(diff) ==
    IF diff = "easy" THEN 0 ELSE IF diff = "medium" THEN 10000 ELSE 20000

\* a selection without the fallback to the whole pool
getTodayWords_noFallback(wordList, diff, zone, day) ==
    firstWords(deterministicShuffle(filterByDifficulty(wordList, diff),
                                    diffDays(zone, day) + difficultyOffset(diff)))

getTodayWords(wordList, diff, zone, day) ==
    LET filteredWords == filterByDifficulty(wordList, diff)
    IN  IF Len(filteredWords) < WORDS_PER_GAME
        THEN firstWords(wordList)
        ELSE firstWords(deterministicShuffle(filteredWords,
                                             diffDays(zone, day) + difficultyOffset(diff)))

\* the results Math.random can give randomShuffle(...).slice(0, WORDS_PER_GAME):
\* every arrangement of WORDS_PER_GAME distinct entries
Arrangements(wordList) ==
    LET n == IF Len(wordList) < WORDS_PER_GAME THEN Len(wordList) ELSE WORDS_PER_GAME
    IN  { [k \in 1..n |-> wordList[f[k]]] :
            f \in { g \in [1..n -> 1..Len(wordList)] :
                      \A a, b \in 1..n : a # b => g[a] # g[b] } }

getPracticeWords(wordList, diff) ==
    LET filteredWords == filterByDifficulty(wordList, diff)
    IN  IF Len(filteredWords) < WORDS_PER_GAME
        THEN Arrangements(wordList)
        ELSE Arrangements(filteredWords)

----------------------------------------------------------------------------
(* useStreak *)

initialStreakData ==
    [currentStreak |-> 0, longestStreak |-> 0, lastPlayedDate |-> NoDate,
     totalGamesPlayed |-> 0, totalScore |-> 0]

Max(a, b) == IF a > b THEN a ELSE b

\* recordGame without the same-day check
recordGame_noSameDay(prev, score, zone, day) ==
    LET yesterday == getYesterdayDate(zone, day)
        newCurrentStreak ==
            IF prev.lastPlayedDate = yesterday THEN prev.currentStreak + 1 ELSE 1
    IN  [currentStreak    |-> newCurrentStreak,
         longestStreak    |-> Max(newCurrentStreak, prev.longestStreak),
         lastPlayedDate   |-> day,
         totalGamesPlayed |-> prev.totalGamesPlayed + 1,
         totalScore       |-> prev.totalScore + score]

\* recordGame that keeps the previous longestStreak
recordGame_noMax(prev, score, zone, day) ==
    LET yesterday == getYesterdayDate(zone, day)
        newCurrentStreak ==
            IF prev.lastPlayedDate = yesterday THEN prev.currentStreak + 1 ELSE 1
    IN  IF prev.lastPlayedDate = day THEN prev
        ELSE [currentStreak    |-> newCurrentStreak,
              longestStreak    |-> prev.longestStreak,
              lastPlayedDate   |-> day,
              totalGamesPlayed |-> prev.totalGamesPlayed + 1,
              totalScore       |-> prev.totalScore + score]

\* the updater that recordGame(score) passes to setStreak
recordGame(prev, score, zone, day) ==
    LET yesterday == getYesterdayDate(zone, day)
        newCurrentStreak ==
            IF prev.lastPlayedDate = yesterday THEN prev.currentStreak + 1
            ELSE IF prev.lastPlayedDate = NoDate THEN 1
            ELSE 1
    IN  IF prev.lastPlayedDate = day THEN prev
        ELSE [currentStreak    |-> newCurrentStreak,
              longestStreak    |-> Max(newCurrentStreak, prev.longestStreak),
              lastPlayedDate   |-> day,
              totalGamesPlayed |-> prev.totalGamesPlayed + 1,
              totalScore       |-> prev.totalScore + score]

----------------------------------------------------------------------------
(* useGameState and the state updaters of SpellingGame *)

\* the initialState argument of useGameState, dated
freshGameState(day) ==
    [date |-> day, gameState |-> "ready", score |-> 0, correctWordCount |-> 0,
     timeLeft |-> TOTAL_TIME, attempts |-> <<>>, currentWordIndex |-> 0,
     userInput |-> <<>>]

\* a value of the key spellingb_game_state on which JSON.parse throws
CorruptEntry == [unparseable |-> TRUE]

\* an initializer that never returns the parsed snapshot
loadGameState_alwaysFresh(stored, day) == freshGameState(day)

\* the initializer of useState in useGameState: the parsed snapshot if it
\* parses and carries today's date, else { date: today, ...initialState }
loadGameState(stored, day) ==
    IF stored = CorruptEntry THEN freshGameState(day)
    ELSE IF stored.date = day THEN stored
    ELSE freshGameState(day)

\* a reset that leaves the clock where the last session stopped it
setStateToInitial_keepsTime(prev) ==
    [prev EXCEPT !.gameState = "ready", !.score = 0, !.correctWordCount = 0,
                 !.attempts = [i \in 1..WORDS_PER_GAME |-> <<>>],
                 !.currentWordIndex = 0, !.userInput = <<>>]

setStateToInitial(prev) ==
    [prev EXCEPT !.gameState = "ready", !.score = 0, !.correctWordCount = 0,
                 !.timeLeft = TOTAL_TIME,
                 !.attempts = [i \in 1..WORDS_PER_GAME |-> <<>>],
                 !.currentWordIndex = 0, !.userInput = <<>>]

\* a comparison that forgets to lower-case the spelling of the word
isCorrectAttempt_caseSensitive(input, word) ==
    toLowerCase(trim(input)) = trim(word)

\* a comparison that accepts every beginning of the word, the empty text
\* included
isCorrectAttempt_startsWith(input, word) ==
    LET a == toLowerCase(trim(input))
        w == toLowerCase(trim(word))
    IN  /\ Len(a) <= Len(w)
        /\ a = SubSeq(w, 1, Len(a))

\* userAttempt === currentWord.word.trim().toLowerCase()
isCorrectAttempt(input, word) ==
    toLowerCase(trim(input)) = toLowerCase(trim(word))

\* the attempt written into the slot of the next word
setAttempt_nextSlot(attempts, index, text) ==
    [i \in 1..Max(Len(attempts), index + 2) |->
        IF i = index + 2 THEN text
        ELSE IF i <= Len(attempts) THEN attempts[i] ELSE <<>>]

\* newAttempts[index] = text, index 0-based (an assignment past the end
\* of a JavaScript array extends it)
setAttempt(attempts, index, text) ==
    [i \in 1..Max(Len(attempts), index + 1) |->
        IF i = index + 1 THEN text
        ELSE IF i <= Len(attempts) THEN attempts[i] ELSE <<>>]

\* a submit updater that rewards every submission
submitUpdate_alwaysReward(prev, input, correct, wordCount) ==
    LET newAttempts == setAttempt(prev.attempts, prev.currentWordIndex, trim(input))
        nextIndex == prev.currentWordIndex + 1
    IN  IF nextIndex < wordCount /\ prev.timeLeft > 0
        THEN [prev EXCEPT !.score = prev.score + 50,
                          !.correctWordCount = prev.correctWordCount + 1,
                          !.currentWordIndex = nextIndex,
                          !.userInput = <<>>,
                          !.attempts = newAttempts]
        ELSE [prev EXCEPT !.score = prev.score + 50,
                          !.correctWordCount = prev.correctWordCount + 1,
                          !.attempts = newAttempts,
                          !.gameState = "finished"]

\* handleSubmit run twice from one render: the updater is queued twice with
\* the same captured input and verdict
submitUpdate_twice(prev, input, correct, wordCount) ==
    LET once(p) ==
            LET newAttempts == setAttempt(p.attempts, p.currentWordIndex, trim(input))
                newScore == IF correct THEN p.score + 50 ELSE p.score
                newCorrectWordCount ==
                    IF correct THEN p.correctWordCount + 1 ELSE p.correctWordCount
                nextIndex == p.currentWordIndex + 1
            IN  IF nextIndex < wordCount /\ p.timeLeft > 0
                THEN [p EXCEPT !.score = newScore,
                               !.correctWordCount = newCorrectWordCount,
                               !.currentWordIndex = nextIndex,
                               !.userInput = <<>>,
                               !.attempts = newAttempts]
                ELSE [p EXCEPT !.score = newScore,
                               !.correctWordCount = newCorrectWordCount,
                               !.attempts = newAttempts,
                               !.gameState = "finished"]
    IN  once(once(prev))

\* a submit updater that leaves the typed text in the input field
submitUpdate_keepsInput(prev, input, correct, wordCount) ==
    LET newAttempts == setAttempt(prev.attempts, prev.currentWordIndex, trim(input))
        newScore == IF correct THEN prev.score + 50 ELSE prev.score
        newCorrectWordCount ==
            IF correct THEN prev.correctWordCount + 1 ELSE prev.correctWordCount
        nextIndex == prev.currentWordIndex + 1
    IN  IF nextIndex < wordCount /\ prev.timeLeft > 0
        THEN [prev EXCEPT !.score = newScore,
                          !.correctWordCount = newCorrectWordCount,
                          !.currentWordIndex = nextIndex,
                          !.attempts = newAttempts]
        ELSE [prev EXCEPT !.score = newScore,
                          !.correctWordCount = newCorrectWordCount,
                          !.attempts = newAttempts,
                          !.gameState = "finished"]

\* the updater of handleSubmit; input and correct are captured by the handler
submitUpdate(prev, input, correct, wordCount) ==
    LET newAttempts == setAttempt(prev.attempts, prev.currentWordIndex, trim(input))
        newScore == IF correct THEN prev.score + 50 ELSE prev.score
        newCorrectWordCount ==
            IF correct THEN prev.correctWordCount + 1 ELSE prev.correctWordCount
        nextIndex == prev.currentWordIndex + 1
    IN  IF nextIndex < wordCount /\ prev.timeLeft > 0
        THEN [prev EXCEPT !.score = newScore,
                          !.correctWordCount = newCorrectWordCount,
                          !.currentWordIndex = nextIndex,
                          !.userInput = <<>>,
                          !.attempts = newAttempts]
        ELSE [prev EXCEPT !.score = newScore,
                          !.correctWordCount = newCorrectWordCount,
                          !.attempts = newAttempts,
                          !.gameState = "finished"]

\* the updater of the timer callback
tickUpdate(prev) == [prev EXCEPT !.timeLeft = prev.timeLeft - 1]

\* the guard of handleKeyDown and handleKeyPress, on the gameState that the
\* handler captured when it was created
acceptsKeys(capturedGameState) == capturedGameState = "playing"

\* a game end that also records the text being typed as an attempt
gameEndUpdate_recordsInput(prev) ==
    [prev EXCEPT !.score = prev.score + prev.timeLeft, !.gameState = "finished",
                 !.attempts = setAttempt(prev.attempts, prev.currentWordIndex,
                                         trim(prev.userInput))]

\* the updater of handleGameEnd
gameEndUpdate(prev) ==
    [prev EXCEPT !.score = prev.score + prev.timeLeft, !.gameState = "finished"]

\* the component without the attempts-length reset effect
attemptsEffect_noReset(gd, sel) == gd

\* effect "If we fetched words and the attempts array length doesn't match"
attemptsEffect(gd, sel) ==
    IF Len(sel) > 0 /\ Len(gd.attempts) # Len(sel) THEN setStateToInitial(gd) ELSE gd

\* effect "Apply time bonus when game ends": recordGame(gameData.score)
finishedEffect(st, gd, mode, zone, day) ==
    IF gd.gameState = "finished" /\ mode = "daily"
    THEN recordGame(st, gd.score, zone, day)
    ELSE st

\* effect "Select words when mode/difficulty changes or words load"
selectionEffect(all, mode, diff, sel, zone, day) ==
    IF Len(all) = 0 THEN sel
    ELSE IF mode = "daily" THEN getTodayWords(all, diff, zone, day)
    ELSE sel

\* One committed update of the component: the new values of the React state,
\* then the effects whose dependencies changed (word selection, recordGame
\* on finished), the attempts-length reset on the following render, and the
\* two save effects, which write every state to localStorage.
CommitRender(gd, mode, diff, all, sel, st, loading, show, pending, stale) ==
    LET selDeps == all # allWords \/ mode # gameMode \/ diff # difficulty
        sel1    == IF selDeps THEN selectionEffect(all, mode, diff, sel, viewerZone, today)
                   ELSE sel
        finDeps == gd.gameState # gameData.gameState \/ gd.score # gameData.score
                   \/ mode # gameMode
        st1     == IF finDeps THEN finishedEffect(st, gd, mode, viewerZone, today) ELSE st
        gd1     == attemptsEffect(gd, sel1)
    IN  /\ gameData' = gd1
        /\ gameMode' = mode
        /\ difficulty' = diff
        /\ allWords' = all
        /\ selectedWords' = sel1
        /\ isLoading' = loading
        /\ showModeSelect' = show
        /\ streak' = st1
        /\ localStorage' = [game |-> gd1, streak |-> st1]
        /\ pendingTick' = pending
        /\ staleKeydown' = stale
        /\ UNCHANGED <<sharedDayNumber, shuffleCall>>
        /\ dailyDoneToday' =
               \/ dailyDoneToday
               \/ (gameData.gameState = "playing" /\ gd1.gameState = "finished"
                   /\ mode = "daily")
        /\ UNCHANGED <<today, viewerZone>>

\* the committed update of a handler that runs while no render is pending
Commit(gd, mode, diff, all, sel, st, loading, show) ==
    /\ pendingTick = <<>>
    /\ CommitRender(gd, mode, diff, all, sel, st, loading, show, <<>>, FALSE)

----------------------------------------------------------------------------
(* Initial state: the page mounted on a device with an empty localStorage *)

Init ==
    /\ today = FirstDay
    /\ viewerZone = "America/Los_Angeles"
    /\ gameMode = "daily"
    /\ difficulty = "easy"
    /\ allWords = <<>>
    /\ selectedWords = <<>>
    /\ isLoading = TRUE
    /\ showModeSelect = TRUE
    /\ gameData = freshGameState(FirstDay)
    /\ streak = initialStreakData
    /\ localStorage = [game |-> freshGameState(FirstDay), streak |-> initialStreakData]
    /\ pendingTick = <<>>
    /\ staleKeydown = FALSE
    /\ sharedDayNumber = NoShare
    /\ shuffleCall = NoCall
    /\ dailyDoneToday = FALSE

----------------------------------------------------------------------------
(* Actions *)

\* the mode selection screen is rendered
ModeSelectVisible ==
    /\ ~isLoading
    /\ showModeSelect
    /\ gameData.gameState \in {"ready", "finished"}

\* fetchWords resolves: the pool, or an error / fewer than 3 valid words
FetchWordsDone ==
    /\ isLoading
    /\ \E all \in {Pool, <<>>} :
         Commit(gameData, gameMode, difficulty, all, selectedWords, streak,
                FALSE, showModeSelect)

\* the difficulty buttons that are pressed: on a pool of easy words "medium"
\* and "hard" both filter to the empty list, so one of them stands for both
DifficultyButtons == {"easy", "medium"}

\* a difficulty button
SetDifficulty ==
    /\ ModeSelectVisible
    /\ \E d \in DifficultyButtons \ {difficulty} :
         Commit(gameData, gameMode, d, allWords, selectedWords, streak,
                isLoading, showModeSelect)

\* onClick = { setGameMode(mode); startGame(); }: startGame is the callback of
\* the current render, so it still reads the gameMode of before the click
StartGame(mode) ==
    IF gameMode = "daily" /\ gameData.gameState = "finished"
    THEN Commit(gameData, mode, difficulty, allWords, selectedWords, streak,
                isLoading, showModeSelect)
    ELSE \E wordsForGame \in (IF gameMode = "practice"
                              THEN getPracticeWords(allWords, difficulty)
                              ELSE {selectedWords}) :
           Commit([setStateToInitial(gameData) EXCEPT !.gameState = "playing"],
                  mode, difficulty, allWords, wordsForGame, streak,
                  isLoading, FALSE)

\* button "Daily Challenge"
ClickDaily ==
    /\ ModeSelectVisible
    /\ gameData.gameState = "ready"
    /\ Len(allWords) # 0
    /\ StartGame("daily")

\* button "Practice Mode (Unlimited)"
ClickPractice ==
    /\ ModeSelectVisible
    /\ Len(allWords) # 0
    /\ StartGame("practice")

\* The gameState that the attached keydown listener reads.  The listener is
\* replaced in an effect; after a render that no interaction caused (the end
\* of the session by the timer) React runs the effects in a later task, and
\* until then the listener of the previous render is the one that is called.
keydownGameState ==
    IF staleKeydown THEN "playing" ELSE gameData.gameState

\* the effects of the render that ended the session run
FlushEffects ==
    /\ staleKeydown
    /\ staleKeydown' = FALSE
    /\ UNCHANGED <<sharedDayNumber, shuffleCall>>
    /\ UNCHANGED <<today, viewerZone, pageVars, streak, localStorage,
                   pendingTick, dailyDoneToday>>

\* a letter key, physical or on-screen
KeyLetter ==
    /\ Len(gameData.userInput) < MaxInput
    /\ IF ~acceptsKeys(keydownGameState)
       THEN UNCHANGED vars
       ELSE \E key \in Keys :
              Commit([gameData EXCEPT !.userInput = Append(@, LowerChar(key))],
                     gameMode, difficulty, allWords, selectedWords, streak,
                     isLoading, showModeSelect)

\* Backspace / DEL
KeyBackspace ==
    IF ~acceptsKeys(keydownGameState)
    THEN UNCHANGED vars
    ELSE Commit([gameData EXCEPT !.userInput = dropLast(@)],
                gameMode, difficulty, allWords, selectedWords, streak,
                isLoading, showModeSelect)

\* Enter / the on-screen Enter key: handleSubmit
Submit ==
    IF ~acceptsKeys(keydownGameState) \/ gameData.currentWordIndex >= Len(selectedWords)
    THEN UNCHANGED vars
    ELSE LET currentWord == selectedWords[gameData.currentWordIndex + 1]
             correct == isCorrectAttempt(gameData.userInput, currentWord.word)
         IN  Commit(submitUpdate(gameData, gameData.userInput, correct,
                                 Len(selectedWords)),
                    gameMode, difficulty, allWords, selectedWords, streak,
                    isLoading, showModeSelect)

\* the callback of the one-second timeout of the timer effect, rendered
\* before any other event arrives
Tick ==
    /\ gameData.gameState = "playing"
    /\ gameData.timeLeft > 0
    /\ Commit(tickUpdate(gameData),
              gameMode, difficulty, allWords, selectedWords, streak,
              isLoading, showModeSelect)

\* The timeout callback has run and queued its update, which React renders
\* in a later task (default priority); the Enter that submits the last word
\* arrives first.  The update of handleSubmit is rendered synchronously, from
\* the state without the tick.  The deferred render then applies the queue in
\* order, the tick first and the submit update again on top of it.
SubmitBeforeTickRender ==
    /\ pendingTick = <<>>
    /\ gameData.gameState = "playing"
    /\ gameData.timeLeft > 0
    /\ gameData.currentWordIndex + 1 = Len(selectedWords)
    /\ LET currentWord == selectedWords[gameData.currentWordIndex + 1]
           correct == isCorrectAttempt(gameData.userInput, currentWord.word)
       IN  CommitRender(submitUpdate(gameData, gameData.userInput, correct,
                                     Len(selectedWords)),
                        gameMode, difficulty, allWords, selectedWords, streak,
                        isLoading, showModeSelect,
                        << submitUpdate(tickUpdate(gameData), gameData.userInput,
                                        correct, Len(selectedWords)) >>,
                        FALSE)

\* the deferred render of the timer's update
TickRender ==
    /\ pendingTick # <<>>
    /\ CommitRender(pendingTick[1], gameMode, difficulty, allWords,
                    selectedWords, streak, isLoading, showModeSelect, <<>>,
                    FALSE)

\* the timer effect at timeLeft = 0: handleGameEnd
TimerGameEnd ==
    /\ pendingTick = <<>>
    /\ gameData.gameState = "playing"
    /\ gameData.timeLeft = 0
    /\ CommitRender(gameEndUpdate(gameData), gameMode, difficulty, allWords,
                    selectedWords,
                    IF gameMode = "daily"
                    THEN recordGame(streak, gameData.score + gameData.timeLeft,
                                    viewerZone, today)
                    ELSE streak,
                    isLoading, showModeSelect, <<>>, TRUE)

\* button "Play Again" of the finished screen (practice only)
PlayAgain ==
    /\ ~isLoading
    /\ gameData.gameState = "finished"
    /\ gameMode = "practice"
    /\ Commit(setStateToInitial(gameData), gameMode, difficulty, allWords,
              selectedWords, streak, isLoading, TRUE)

\* button "Back to Menu" of the finished screen: backToModeSelect
BackToMenu ==
    /\ ~isLoading
    /\ gameData.gameState = "finished"
    /\ Commit(setStateToInitial(gameData), gameMode, difficulty, allWords,
              selectedWords, streak, isLoading, TRUE)

\* a page load whose save effect does not write the game state
Reload_noSave ==
    LET gd == loadGameState(localStorage.game, today)
        st == finishedEffect(localStorage.streak, gd, "daily", viewerZone, today)
    IN  /\ gameData' = gd
        /\ gameMode' = "daily"
        /\ difficulty' = "easy"
        /\ allWords' = <<>>
        /\ selectedWords' = <<>>
        /\ isLoading' = TRUE
        /\ showModeSelect' = TRUE
        /\ streak' = st
        /\ localStorage' = [localStorage EXCEPT !.streak = st]
        /\ pendingTick' = <<>>
        /\ staleKeydown' = FALSE
        /\ UNCHANGED <<sharedDayNumber, shuffleCall>>
        /\ UNCHANGED <<today, viewerZone, dailyDoneToday>>

\* the page is loaded again: every useState starts over, the two hooks read
\* localStorage, and the effects of the first render run
Reload ==
    LET gd == loadGameState(localStorage.game, today)
        st == finishedEffect(localStorage.streak, gd, "daily", viewerZone, today)
    IN  /\ gameData' = gd
        /\ gameMode' = "daily"
        /\ difficulty' = "easy"
        /\ allWords' = <<>>
        /\ selectedWords' = <<>>
        /\ isLoading' = TRUE
        /\ showModeSelect' = TRUE
        /\ streak' = st
        /\ localStorage' = [game |-> gd, streak |-> st]
        /\ pendingTick' = <<>>
        /\ staleKeydown' = FALSE
        /\ UNCHANGED <<sharedDayNumber, shuffleCall>>
        /\ UNCHANGED <<today, viewerZone, dailyDoneToday>>

\* the stored snapshot of the Daily session that has just finished is damaged
\* outside the page (storage edited or truncated): JSON.parse will throw on it
CorruptStore ==
    /\ pendingTick = <<>>
    /\ ~staleKeydown
    /\ gameData.gameState = "finished"
    /\ gameMode = "daily"
    /\ ~showModeSelect
    /\ localStorage.game # CorruptEntry
    /\ localStorage' = [localStorage EXCEPT !.game = CorruptEntry]
    /\ UNCHANGED <<today, viewerZone, pageVars, streak, pendingTick,
                   staleKeydown, sharedDayNumber, shuffleCall, dailyDoneToday>>

\* the calendar day of America/Los_Angeles changes
Midnight ==
    /\ pendingTick = <<>>
    /\ ~staleKeydown
    /\ today < LastDay
    /\ today' = today + 1
    /\ dailyDoneToday' = FALSE
    /\ UNCHANGED <<viewerZone, pageVars, streak, localStorage, pendingTick,
                   staleKeydown, sharedDayNumber, shuffleCall>>

Next ==
    \/ FetchWordsDone
    \/ SetDifficulty
    \/ ClickDaily
    \/ ClickPractice
    \/ KeyLetter
    \/ KeyBackspace
    \/ Submit
    \/ Tick
    \/ SubmitBeforeTickRender
    \/ TickRender
    \/ TimerGameEnd
    \/ FlushEffects
    \/ PlayAgain
    \/ BackToMenu
    \/ Reload
    \/ CorruptStore
    \/ Midnight

Spec == Init /\ [][Next]_vars

\* The page with its timer running, playing Daily sessions: the browser
\* runs the callback of a pending setTimeout, and React runs the timer
\* effect of a committed render, whenever they stay due.  Nothing obliges
\* the player to act.
NextLive ==
    \/ FetchWordsDone
    \/ ClickDaily
    \/ KeyLetter
    \/ KeyBackspace
    \/ Submit
    \/ Tick
    \/ SubmitBeforeTickRender
    \/ TickRender
    \/ TimerGameEnd
    \/ FlushEffects
    \/ BackToMenu
    \/ Reload
    \/ Midnight

SpecLive ==
    Init /\ [][NextLive]_vars /\ WF_vars(Tick) /\ WF_vars(TimerGameEnd)

\* the same fairness with every action of the page, Practice included
SpecLiveAll == Spec /\ WF_vars(Tick) /\ WF_vars(TimerGameEnd)

----------------------------------------------------------------------------
(* The streak hook alone: recordGame and resetStreak called in any order,  *)
(* with any score, on any sequence of days.                                *)

Scores == {0, 50, 110}

CallRecordGame ==
    /\ streak.totalGamesPlayed < MaxGames
    /\ \E score \in Scores :
         /\ streak' = recordGame(streak, score, viewerZone, today)
         /\ localStorage' = [localStorage EXCEPT !.streak = streak']
    /\ UNCHANGED <<today, viewerZone, pageVars, pendingTick, staleKeydown, sharedDayNumber, shuffleCall,
                   dailyDoneToday>>

CallResetStreak ==
    /\ streak' = initialStreakData
    /\ localStorage' = [localStorage EXCEPT !.streak = streak']
    /\ UNCHANGED <<today, viewerZone, pageVars, pendingTick, staleKeydown, sharedDayNumber, shuffleCall,
                   dailyDoneToday>>

StreakMidnight ==
    /\ today < StreakLastDay
    /\ today' = today + 1
    /\ dailyDoneToday' = FALSE
    /\ UNCHANGED <<viewerZone, pageVars, streak, localStorage, pendingTick,
                   staleKeydown, sharedDayNumber, shuffleCall>>

NextStreak ==
    \/ CallRecordGame
    \/ CallResetStreak
    \/ StreakMidnight

InitStreak ==
    /\ today = FirstDay
    /\ viewerZone \in Zones
    /\ gameMode = "daily"
    /\ difficulty = "easy"
    /\ allWords = <<>>
    /\ selectedWords = <<>>
    /\ isLoading = TRUE
    /\ showModeSelect = TRUE
    /\ gameData = freshGameState(FirstDay)
    /\ streak = initialStreakData
    /\ localStorage = [game |-> freshGameState(FirstDay), streak |-> initialStreakData]
    /\ pendingTick = <<>>
    /\ staleKeydown = FALSE
    /\ sharedDayNumber = NoShare
    /\ shuffleCall = NoCall
    /\ dailyDoneToday = FALSE

SpecStreak == InitStreak /\ [][NextStreak]_vars

----------------------------------------------------------------------------
(* The daily selection alone: the selection effect evaluated for any pool, *)
(* difficulty and day, on devices in any time zone.                        *)

\* a pool with four easy words and one medium word
MixedPool ==
    << [id |-> 1, word |-> <<"a">>,       difficulty |-> "easy"],
       [id |-> 2, word |-> <<"A", " ">>,  difficulty |-> "easy"],
       [id |-> 3, word |-> <<" ", "a">>,  difficulty |-> "easy"],
       [id |-> 4, word |-> <<"a", "a">>,  difficulty |-> "medium"],
       [id |-> 5, word |-> <<"A">>,       difficulty |-> "easy"] >>

DailyPools == {Pool, MixedPool}

dailyFrame == <<gameMode, isLoading, showModeSelect, gameData, streak,
                localStorage, pendingTick, staleKeydown, sharedDayNumber, shuffleCall, dailyDoneToday>>

\* the selection effect runs in daily mode
EvaluateDaily ==
    /\ selectedWords' = selectionEffect(allWords, "daily", difficulty,
                                        selectedWords, viewerZone, today)
    /\ UNCHANGED <<today, viewerZone, allWords, difficulty, dailyFrame>>

\* the next evaluation happens on a device in another time zone
AnotherDevice ==
    /\ viewerZone' \in Zones \ {viewerZone}
    /\ UNCHANGED <<today, allWords, difficulty, selectedWords, dailyFrame>>

\* another difficulty: nothing is selected yet for it
DailyDifficulty ==
    /\ difficulty' \in Difficulties \ {difficulty}
    /\ selectedWords' = <<>>
    /\ UNCHANGED <<today, viewerZone, allWords, dailyFrame>>

\* the next calendar day: nothing is selected yet for it
DailyMidnight ==
    /\ today < StreakLastDay
    /\ today' = today + 1
    /\ selectedWords' = <<>>
    /\ UNCHANGED <<viewerZone, allWords, difficulty, dailyFrame>>

NextDaily ==
    \/ EvaluateDaily
    \/ AnotherDevice
    \/ DailyDifficulty
    \/ DailyMidnight

InitDaily ==
    /\ today = FirstDay
    /\ viewerZone \in Zones
    /\ gameMode = "daily"
    /\ difficulty = "easy"
    /\ allWords \in DailyPools
    /\ selectedWords = <<>>
    /\ isLoading = FALSE
    /\ showModeSelect = TRUE
    /\ gameData = freshGameState(FirstDay)
    /\ streak = initialStreakData
    /\ localStorage = [game |-> freshGameState(FirstDay), streak |-> initialStreakData]
    /\ pendingTick = <<>>
    /\ staleKeydown = FALSE
    /\ sharedDayNumber = NoShare
    /\ shuffleCall = NoCall
    /\ dailyDoneToday = FALSE

SpecDaily == InitDaily /\ [][NextDaily]_vars

----------------------------------------------------------------------------
(* The streak hook mounted over a stored entry that the page did not       *)
(* write: useStreak's initializer, the first render and the save effect.   *)

\* the stored text "null": JSON.parse succeeds and returns null
JsNull == [null |-> TRUE]

\* stored texts that are not a StreakData record
MalformedStreaks == {CorruptEntry, JsNull}

\* useState initializer of useStreak: the parsed entry as it is, and
\* initialStreakData only when JSON.parse throws
loadStreak(stored) ==
    IF stored = CorruptEntry THEN initialStreakData ELSE stored

\* the render of useStreak evaluates streak.lastPlayedDate for the
\* dependency list of isStreakActive: a TypeError when streak is null
useStreakThrows(st) == st = JsNull

isStreakActive(st, zone, day) ==
    IF st.lastPlayedDate = NoDate
    THEN FALSE
    ELSE \/ st.lastPlayedDate = day
         \/ st.lastPlayedDate = getYesterdayDate(zone, day)

displayStreak(st, zone, day) ==
    IF ~isStreakActive(st, zone, day) THEN 0 ELSE st.currentStreak

\* the entry spellingb_streak is replaced outside the page
StreakStoreDamaged ==
    /\ localStorage.streak \notin MalformedStreaks
    /\ \E bad \in MalformedStreaks :
         localStorage' = [localStorage EXCEPT !.streak = bad]
    /\ UNCHANGED <<today, viewerZone, pageVars, streak, pendingTick,
                   staleKeydown, sharedDayNumber, shuffleCall, dailyDoneToday>>

\* the page is loaded: the initializer reads the entry, the component
\* renders, and the save effect runs unless the render threw
MountStreak ==
    /\ streak' = loadStreak(localStorage.streak)
    /\ localStorage' = IF useStreakThrows(streak')
                       THEN localStorage
                       ELSE [localStorage EXCEPT !.streak = streak']
    /\ UNCHANGED <<today, viewerZone, pageVars, pendingTick, staleKeydown,
                   sharedDayNumber, shuffleCall, dailyDoneToday>>

\* recordGame called by a mounted page
MountedRecordGame ==
    /\ ~useStreakThrows(streak)
    /\ streak.totalGamesPlayed < MaxGames
    /\ \E score \in Scores :
         /\ streak' = recordGame(streak, score, viewerZone, today)
         /\ localStorage' = [localStorage EXCEPT !.streak = streak']
    /\ UNCHANGED <<today, viewerZone, pageVars, pendingTick, staleKeydown,
                   sharedDayNumber, shuffleCall, dailyDoneToday>>

NextStreakLoad ==
    \/ StreakStoreDamaged
    \/ MountStreak
    \/ MountedRecordGame
    \/ StreakMidnight

SpecStreakLoad == InitStreak /\ [][NextStreakLoad]_vars

----------------------------------------------------------------------------
(* Sharing: the Share button of the results screen of a Daily session,     *)
(* pressed at any hour of any day while that screen stays open.            *)

\* share.ts getGameDayNumber: whole days from new Date("2023-01-01"), that
\* is 2023-01-01T00:00Z, to the instant now
getGameDayNumber(now) == now \div 24

\* wall-clock hours of a day in America/Los_Angeles
HoursOfDay == 0 .. 23

\* a Daily session that ran out of time without a submit
timedOutSession(day) ==
    [freshGameState(day) EXCEPT
        !.gameState = "finished",
        !.timeLeft = 0,
        !.attempts = [i \in 1..WORDS_PER_GAME |-> <<>>]]

\* handleShare: the ShareData handed to shareResults
ShareResults ==
    /\ gameData.gameState = "finished"
    /\ \E hour \in HoursOfDay :
         sharedDayNumber' =
             getGameDayNumber(WallToUtc("America/Los_Angeles", 24 * today + hour))
    /\ UNCHANGED <<today, viewerZone, pageVars, streak, localStorage,
                   pendingTick, staleKeydown, shuffleCall, dailyDoneToday>>

NextShare ==
    \/ ShareResults
    \/ StreakMidnight

InitShare ==
    /\ today = FirstDay
    /\ viewerZone \in Zones
    /\ gameMode = "daily"
    /\ difficulty \in Difficulties
    /\ allWords = Pool
    /\ selectedWords = getTodayWords(Pool, difficulty, viewerZone, FirstDay)
    /\ isLoading = FALSE
    /\ showModeSelect = FALSE
    /\ gameData = timedOutSession(FirstDay)
    /\ streak = recordGame(initialStreakData, 0, viewerZone, FirstDay)
    /\ localStorage = [game |-> gameData, streak |-> streak]
    /\ pendingTick = <<>>
    /\ staleKeydown = FALSE
    /\ sharedDayNumber = NoShare
    /\ shuffleCall = NoCall
    /\ dailyDoneToday = TRUE

SpecShare == InitShare /\ [][NextShare]_vars

----------------------------------------------------------------------------
(* The daily selection as a call on array objects: what the arrays passed  *)
(* in hold when the call returns.                                          *)

\* a shuffle that swaps in the array it was given
deterministicShuffleCall_inPlace(array, seed) ==
    LET shuffled == shuffleLoop(array, seed, Len(array) - 1)
    IN  [array |-> shuffled, result |-> shuffled]

\* deterministicShuffle: shuffled = [...array] is a new array, the swaps are
\* made in it; array is the argument as the call leaves it
deterministicShuffleCall(array, seed) ==
    [array |-> array, result |-> shuffleLoop(array, seed, Len(array) - 1)]

\* getTodayWords: filter and slice return new arrays; wordList and
\* filteredWords are the two arrays as the call leaves them
getTodayWordsCall(wordList, diff, zone, day) ==
    LET filteredWords == filterByDifficulty(wordList, diff)
    IN  IF Len(filteredWords) < WORDS_PER_GAME
        THEN [wordList |-> wordList, filteredWords |-> filteredWords,
              result |-> firstWords(wordList)]
        ELSE LET call == deterministicShuffleCall(
                             filteredWords,
                             diffDays(zone, day) + difficultyOffset(diff))
             IN  [wordList |-> wordList, filteredWords |-> call.array,
                  result |-> firstWords(call.result)]

\* the selection effect calls getTodayWords(allWords, difficulty)
CallGetTodayWords ==
    LET call == getTodayWordsCall(allWords, difficulty, viewerZone, today)
    IN  /\ allWords' = call.wordList
        /\ selectedWords' = call.result
        /\ UNCHANGED <<today, viewerZone, difficulty, dailyFrame>>

NextCall ==
    \/ CallGetTodayWords
    \/ AnotherDevice
    \/ DailyDifficulty
    \/ DailyMidnight

SpecCall == InitDaily /\ [][NextCall]_vars

----------------------------------------------------------------------------
(* Results: the Daily session of a pool whose words differ from each       *)
(* other, its results shown again after a reload or a change of difficulty.*)

\* a pool with words that the typed text "a" matches and words it does not
VariedPool ==
    << [id |-> 1, word |-> <<"a">>,       difficulty |-> "easy"],
       [id |-> 2, word |-> <<"b">>,       difficulty |-> "easy"],
       [id |-> 3, word |-> <<"A", " ">>,  difficulty |-> "easy"],
       [id |-> 4, word |-> <<"b">>,       difficulty |-> "medium"],
       [id |-> 5, word |-> <<"a">>,       difficulty |-> "medium"],
       [id |-> 6, word |-> <<"b">>,       difficulty |-> "medium"] >>

\* the result row of the finished screen: attempt.trim().toLowerCase() ===
\* (selectedWords[i]?.word || "").trim().toLowerCase(), counted
rowPassCount(attempts, words) ==
    Cardinality({i \in 1..Len(attempts) :
        toLowerCase(trim(attempts[i]))
            = toLowerCase(trim(IF i <= Len(words) THEN words[i].word ELSE <<>>))})

\* share.ts generateEmojiGrid: a slot without a word is neither pass nor
\* fail; the pass glyphs counted
gridPassCount(attempts, correctWords) ==
    Cardinality({i \in 1..Len(attempts) :
        /\ i <= Len(correctWords)
        /\ correctWords[i] # <<>>
        /\ toLowerCase(trim(attempts[i])) = toLowerCase(trim(correctWords[i]))})

\* correctWords: selectedWords.map((w) => w.word)
correctWordsOf(words) == [i \in 1..Len(words) |-> words[i].word]

\* fetchWords resolves with the varied pool
FetchVariedDone ==
    /\ isLoading
    /\ Commit(gameData, gameMode, difficulty, VariedPool, selectedWords, streak,
              FALSE, showModeSelect)

NextResults ==
    \/ FetchVariedDone
    \/ SetDifficulty
    \/ ClickDaily
    \/ KeyLetter
    \/ Submit
    \/ Tick
    \/ TimerGameEnd
    \/ FlushEffects
    \/ BackToMenu
    \/ Reload
    \/ Midnight

SpecResults == Init /\ [][NextResults]_vars

----------------------------------------------------------------------------
(* deterministicShuffle alone, one statement of its loop at a time, for    *)
(* any seed and any input array.                                           *)

\* the largest of the small seeds
MaxSeed == 5

\* seeds: the small ones, the seeds getTodayWords passes on the first day,
\* and seeds around and above the modulus
Seeds ==
    (0 .. MaxSeed)
    \cup { diffDays(zone, FirstDay) + difficultyOffset(diff) :
             zone \in Zones, diff \in Difficulties }
    \cup { 233279, 233280, 2332801 }

\* input arrays: none, one, three, five and six entries
ShuffleArrays == { <<>>, SubSeq(Pool, 1, 1), Pool, MixedPool, VariedPool }

shuffleFrame == <<today, viewerZone, gameMode, difficulty, allWords, isLoading,
                  showModeSelect, gameData, streak, localStorage, pendingTick,
                  staleKeydown, sharedDayNumber, dailyDoneToday>>

\* const shuffled = [...array]; const rand = seedRandom(seed);
\* i = shuffled.length - 1
EnterShuffle ==
    /\ shuffleCall.phase \in {"none", "returned"}
    /\ \E seed \in Seeds :
         shuffleCall' = [phase    |-> "loop",
                         seed     |-> seed,
                         array    |-> allWords,
                         shuffled |-> allWords,
                         value    |-> seed,
                         i        |-> Len(allWords) - 1,
                         j        |-> 0]
    /\ selectedWords' = <<>>
    /\ UNCHANGED shuffleFrame

\* const j = Math.floor(rand() * (i + 1))
ShuffleDraw ==
    /\ shuffleCall.phase = "loop"
    /\ shuffleCall.i > 0
    /\ LET v == lcgNext(shuffleCall.value)
       IN  shuffleCall' = [shuffleCall EXCEPT
                              !.phase = "drawn",
                              !.value = v,
                              !.j = swapIndex(v, shuffleCall.i)]
    /\ UNCHANGED <<selectedWords, shuffleFrame>>

\* [shuffled[i], shuffled[j]] = [shuffled[j], shuffled[i]]; i--
ShuffleSwap ==
    /\ shuffleCall.phase = "drawn"
    /\ shuffleCall' = [shuffleCall EXCEPT
                          !.phase = "loop",
                          !.shuffled = Swap(@, shuffleCall.i + 1, shuffleCall.j + 1),
                          !.i = @ - 1]
    /\ UNCHANGED <<selectedWords, shuffleFrame>>

\* return shuffled; the caller keeps .slice(0, WORDS_PER_GAME)
ShuffleReturn ==
    /\ shuffleCall.phase = "loop"
    /\ shuffleCall.i <= 0
    /\ shuffleCall' = [shuffleCall EXCEPT !.phase = "returned"]
    /\ selectedWords' = firstWords(shuffleCall.shuffled)
    /\ UNCHANGED shuffleFrame

NextShuffle ==
    \/ EnterShuffle
    \/ ShuffleDraw
    \/ ShuffleSwap
    \/ ShuffleReturn

InitShuffle ==
    /\ today = FirstDay
    /\ viewerZone = "UTC"
    /\ gameMode = "daily"
    /\ difficulty = "easy"
    /\ allWords \in ShuffleArrays
    /\ selectedWords = <<>>
    /\ isLoading = FALSE
    /\ showModeSelect = TRUE
    /\ gameData = freshGameState(FirstDay)
    /\ streak = initialStreakData
    /\ localStorage = [game |-> freshGameState(FirstDay), streak |-> initialStreakData]
    /\ pendingTick = <<>>
    /\ staleKeydown = FALSE
    /\ sharedDayNumber = NoShare
    /\ shuffleCall = NoCall
    /\ dailyDoneToday = FALSE

SpecShuffle == InitShuffle /\ [][NextShuffle]_vars

\* the statements taken one at a time return what deterministicShuffle gives
ShuffleStepsAgree ==
    shuffleCall.phase = "returned"
        => shuffleCall.shuffled
             = deterministicShuffle(shuffleCall.array, shuffleCall.seed)

----------------------------------------------------------------------------
(* Properties *)

\* C1: whenever a session is Finished, its score equals
\* correctCount * 50 + timeRemaining at the moment the session ended
\* (a last submit with t seconds left adds t to the score).
C1_FinalScore ==
    gameData.gameState = "finished" =>
        gameData.score = gameData.correctWordCount * 50 + gameData.timeLeft

\* C2: once a Daily session has finished on a calendar day, no Daily session
\* is Ready or Playing again on that day.
C2_DailyLockout ==
    ~ ( /\ dailyDoneToday
        /\ gameMode = "daily"
        /\ gameData.gameState \in {"ready", "playing"} )

\* C3: a page load that finds a Finished snapshot dated today restores it
\* (phase Finished, the stored score), and the restored session stays as it
\* is when the word pool arrives; a snapshot of a prior day is discarded and
\* the session starts Ready with score 0.
C3_ReloadStep ==
    (Reload /\ localStorage.game # CorruptEntry) =>
        /\ (localStorage.game.date = today /\ localStorage.game.gameState = "finished")
              => /\ gameData'.gameState = "finished"
                 /\ gameData'.score = localStorage.game.score
        /\ localStorage.game.date < today
              => /\ gameData'.gameState = "ready"
                 /\ gameData'.score = 0

C3_PoolArrives ==
    (isLoading /\ ~isLoading' /\ gameData.gameState = "finished")
        => /\ gameData'.gameState = "finished"
           /\ gameData'.score = gameData.score

C3_Restore == [][C3_ReloadStep /\ C3_PoolArrives]_vars

\* a Finished snapshot of today restored by a load that is still fetching
C3_Witness ==
    /\ isLoading
    /\ gameData.gameState = "finished"
    /\ gameData.date = today
    /\ gameData.timeLeft > 0
    /\ gameData.score > 0

\* C4: no state change made in Practice mode is written to localStorage.
C4_PracticeNotPersisted ==
    [][(gameMode = "practice" /\ gameMode' = "practice")
           => localStorage'.game = localStorage.game]_vars

\* C5: the streak record changes only in the step in which a Daily-mode
\* session completes.
C5_StreakOnlyByDaily ==
    [][streak' # streak
          => /\ gameMode = "daily"
             /\ gameData.gameState = "playing"
             /\ gameData'.gameState = "finished"]_vars

\* C6: once the streak record carries today's date, nothing changes it for the
\* rest of that day, and totalGamesPlayed never grows by more than 1 in a step.
C6_OncePerDay ==
    [][today' = today
          => /\ streak.lastPlayedDate = today => streak' = streak
             /\ streak'.totalGamesPlayed <= streak.totalGamesPlayed + 1]_vars

\* the finished Daily session of today loaded again: recordGame ran once more
C6_Witness ==
    /\ isLoading
    /\ gameData.gameState = "finished"
    /\ gameData.timeLeft > 0
    /\ streak.lastPlayedDate = today
    /\ streak.totalGamesPlayed = 1

\* C7: streak continuity law of a recording call: one calendar day after
\* lastPlayedDate adds 1 to currentStreak, no lastPlayedDate gives 1, a gap of
\* two or more days gives 1.
C7_ContinuityLaw ==
    [][streak'.totalGamesPlayed = streak.totalGamesPlayed + 1
          => /\ streak.lastPlayedDate = today - 1
                  => streak'.currentStreak = streak.currentStreak + 1
             /\ streak.lastPlayedDate = NoDate
                  => streak'.currentStreak = 1
             /\ (streak.lastPlayedDate # NoDate /\ streak.lastPlayedDate <= today - 2)
                  => streak'.currentStreak = 1]_vars

\* C8: currentStreak never exceeds longestStreak.
C8_CurrentAtMostLongest == streak.currentStreak <= streak.longestStreak

\* a broken streak started again below the longest one
C8_Witness ==
    /\ streak.currentStreak >= 1
    /\ streak.longestStreak > streak.currentStreak

\* C9: within a session the score never decreases; a submit judged correct
\* adds exactly 50, a submit judged incorrect adds no reward.
SameSession ==
    \/ gameData.gameState = "playing" /\ gameData'.gameState \in {"playing", "finished"}
    \/ gameData.gameState = "finished" /\ gameData'.gameState = "finished"

SubmitOfWord ==
    /\ gameData.currentWordIndex < Len(selectedWords)
    /\ acceptsKeys(keydownGameState)
    /\ \/ gameData'.gameState = "finished"
       \/ gameData'.currentWordIndex = gameData.currentWordIndex + 1
    /\ (Submit \/ SubmitBeforeTickRender)

JudgedCorrect ==
    toLowerCase(trim(gameData.userInput))
        = toLowerCase(trim(selectedWords[gameData.currentWordIndex + 1].word))

C9_ScoreMonotone ==
    [][/\ SameSession => gameData'.score >= gameData.score
       /\ SubmitOfWord =>
            IF JudgedCorrect
            THEN gameData'.score = gameData.score + 50
            ELSE /\ gameData'.correctWordCount = gameData.correctWordCount
                 /\ gameData'.score - gameData.score \in {0, gameData.timeLeft}]_vars

\* one correct and one incorrect answer submitted, third word in play
C9_Witness ==
    /\ gameData.gameState = "playing"
    /\ gameData.currentWordIndex = 2
    /\ gameData.score = 50

\* C10: a started session has one attempts slot per word; a submit writes the
\* trimmed input into the slot of the current word and nothing else changes a
\* slot; the slots of the words not submitted are empty.
C10_Slots ==
    gameData.gameState \in {"playing", "finished"} =>
        /\ Len(gameData.attempts) = WORDS_PER_GAME
        /\ \A i \in 1..Len(gameData.attempts) :
             (\/ i - 1 > gameData.currentWordIndex
              \/ (i - 1 = gameData.currentWordIndex /\ gameData.gameState = "playing"))
                => gameData.attempts[i] = <<>>

C10_Step ==
    IF SubmitOfWord
    THEN /\ Len(gameData'.attempts) = Len(gameData.attempts)
         /\ \A i \in 1..Len(gameData.attempts) :
              gameData'.attempts[i] =
                  IF i = gameData.currentWordIndex + 1
                  THEN trim(gameData.userInput)
                  ELSE gameData.attempts[i]
    ELSE SameSession => gameData'.attempts = gameData.attempts

C10_AttemptsComplete == [](C10_Slots) /\ [][C10_Step]_vars

\* timed out on the second word after submitting "a" for the first
C10_Witness ==
    /\ gameData.gameState = "finished"
    /\ gameData.timeLeft = 0
    /\ gameData.currentWordIndex = 1
    /\ gameData.attempts = << <<"a">>, <<>>, <<>> >>

\* C11: once the words are loaded, 0 <= currentWordIndex <= word count and
\* attempts has one entry per word of the session.
C11_IndexAndAttempts ==
    Len(allWords) > 0 =>
        /\ gameData.currentWordIndex >= 0
        /\ gameData.currentWordIndex <= Len(selectedWords)
        /\ Len(gameData.attempts) = Len(selectedWords)

\* words loaded, session ended by the submit of the last word
C11_Witness ==
    /\ Len(allWords) > 0
    /\ gameData.gameState = "finished"
    /\ gameData.currentWordIndex = WORDS_PER_GAME - 1
    /\ gameData.attempts[WORDS_PER_GAME] # <<>>

C13_FrozenWhenFinished ==
    [][(gameData.gameState = "finished" /\ gameData'.gameState = "finished")
          => /\ gameData'.timeLeft = gameData.timeLeft
             /\ gameData'.currentWordIndex = gameData.currentWordIndex]_vars

\* C14: Enter, a letter key, Backspace and the timer callback arriving while
\* the phase is Ready or Finished leave the whole session state unchanged.
C14_InvalidIgnored ==
    [][(/\ gameData.gameState \in {"ready", "finished"}
        /\ (KeyLetter \/ KeyBackspace \/ Submit \/ Tick))
          => gameData' = gameData]_vars

\* C18: the snapshot written when a Daily session finishes carries the date of
\* the day on which it finished.
C18_SnapshotDatedToday ==
    [][(/\ gameMode = "daily"
        /\ gameData.gameState = "playing"
        /\ gameData'.gameState = "finished")
          => localStorage'.game.date = today']_vars

\* C19: a load that finds a snapshot dated today yields phase Finished,
\* whatever phase the snapshot recorded.
C19_LoadForcesFinished ==
    [][(/\ Reload
        /\ localStorage.game # CorruptEntry
        /\ localStorage.game.date = today)
          => gameData'.gameState = "finished"]_vars

\* C20: a load that finds an unparseable snapshot yields a fresh Ready session
\* with score 0, and the store no longer holds the unparseable entry.
C20_CorruptTreatedAbsent ==
    [][(Reload /\ localStorage.game = CorruptEntry)
          => /\ gameData' = freshGameState(today)
             /\ gameData'.gameState = "ready"
             /\ gameData'.score = 0
             /\ localStorage'.game # CorruptEntry]_vars

\* the stored snapshot of today's finished Daily session is unparseable
C20_Witness ==
    /\ localStorage.game = CorruptEntry
    /\ dailyDoneToday

\* C15: two evaluations of the daily selection with the same pool, difficulty
\* and date return the same words in the same order.
C15_SelectionDeterministic ==
    [][(selectedWords # <<>> /\ selectedWords' # <<>>)
          => selectedWords' = selectedWords]_vars

\* a selection made on the second day of the run
C15_Witness ==
    /\ selectedWords # <<>>
    /\ allWords = MixedPool
    /\ difficulty = "easy"
    /\ today = FirstDay + 1

\* C16: on one calendar day the selection and the day index that seeds it are
\* the same for every device, and from one calendar day to the next the day
\* index grows by exactly 1.
C16_DayBoundary ==
    [][/\ \A z \in Zones :
            /\ diffDays(z, today) = diffDays(viewerZone, today)
            /\ getTodayWords(allWords, difficulty, z, today)
                  = getTodayWords(allWords, difficulty, viewerZone, today)
       /\ today' = today + 1 =>
            \A z \in Zones : diffDays(z, today') = diffDays(z, today) + 1]_vars

\* a selection made on the day after the end of daylight saving time, abroad
C16_Witness ==
    /\ selectedWords # <<>>
    /\ today = DstEndDay + 1
    /\ viewerZone = "Asia/Tokyo"

\* C17: from a pool of at least 3 entries the daily selection returns exactly
\* 3 entries of the pool, for every difficulty.
C17_ThreeWords ==
    [][EvaluateDaily =>
          /\ Len(selectedWords') = WORDS_PER_GAME
          /\ \A i \in 1..Len(selectedWords') :
                \E k \in 1..Len(allWords) : selectedWords'[i] = allWords[k]]_vars

\* a selection for a difficulty that has fewer than 3 words in the pool
C17_Witness ==
    /\ selectedWords # <<>>
    /\ allWords = MixedPool
    /\ difficulty = "medium"

\* C21: a page load that finds a malformed stored streak record (text that
\* does not parse, or that parses to null) discards it: the streak in use
\* and the stored entry are the fresh default, the render does not throw,
\* and displayStreak works on the result.
C21_MalformedDiscarded ==
    [][ (MountStreak /\ localStorage.streak \in MalformedStreaks) =>
            /\ streak' = initialStreakData
            /\ localStorage'.streak = initialStreakData
            /\ ~useStreakThrows(streak')
            /\ displayStreak(streak', viewerZone, today) = 0 ]_vars

\* C22: when the fetch of the pool has ended without a usable pool (an
\* error, or fewer than three valid entries), the session is not Playing,
\* whatever happened before, a reload that finds a stored snapshot included.
C22_NoPlayingWithoutPool ==
    (~isLoading /\ Len(allWords) = 0) => gameData.gameState # "playing"

\* C23: the day number put into the share summary equals the day index
\* that seeds the daily selection, at whatever hour of the day the results
\* are shared.
C23_ShareDayIsSelectionDay ==
    [][ ShareResults => sharedDayNumber' = diffDays(viewerZone, today) ]_vars

\* C24: on the step that completes a Daily session, the date of the
\* persisted snapshot equals the lastPlayedDate of the persisted streak
\* record.
C24_SnapshotDateIsLastPlayed ==
    [][ ( /\ gameMode = "daily"
          /\ gameData.gameState = "playing"
          /\ gameData'.gameState = "finished" ) =>
            localStorage'.game.date = localStorage'.streak.lastPlayedDate ]_vars

\* C25: a start from Ready (either start button) puts the session into
\* Playing with the full time on the clock, score 0, correctCount 0,
\* currentIndex 0, an empty userInput, and one empty attempt per word of
\* the session.
C25_StartState ==
    [][ (gameData.gameState = "ready" /\ (ClickDaily \/ ClickPractice)) =>
            /\ gameData'.gameState = "playing"
            /\ gameData'.timeLeft = TOTAL_TIME
            /\ gameData'.score = 0
            /\ gameData'.correctWordCount = 0
            /\ gameData'.currentWordIndex = 0
            /\ gameData'.userInput = <<>>
            /\ Len(gameData'.attempts) = Len(selectedWords')
            /\ Len(selectedWords') = WORDS_PER_GAME
            /\ \A i \in 1..Len(gameData'.attempts) :
                 gameData'.attempts[i] = <<>> ]_vars

\* C25 witness: a session just started from Ready after an earlier session
\* of the same page has been played to its end
C25_Witness ==
    /\ gameData.gameState = "playing"
    /\ gameData.timeLeft = TOTAL_TIME
    /\ gameData.currentWordIndex = 0
    /\ gameData.userInput = <<>>
    /\ gameData.attempts = [i \in 1..WORDS_PER_GAME |-> <<>>]
    /\ streak.totalGamesPlayed > 0
    /\ ~showModeSelect

C27_VerdictMatchesSlot ==
    [][ SubmitOfWord =>
          LET slot == gameData.currentWordIndex + 1
              same == toLowerCase(trim(gameData.userInput))
                        = toLowerCase(trim(selectedWords'[slot].word))
          IN  /\ gameData'.attempts[slot] = trim(gameData.userInput)
              /\ \A i \in 1..Len(gameData.attempts) :
                   i # slot => gameData'.attempts[i] = gameData.attempts[i]
              /\ gameData'.correctWordCount =
                     gameData.correctWordCount + (IF same THEN 1 ELSE 0)
              /\ same => gameData'.score = gameData.score + 50 ]_vars

\* C27 witness: the typed "a" has been counted correct for a word spelled
\* "A " in the pool, and a submit for the first word was counted incorrect
C27_Witness ==
    /\ gameData.gameState \in {"playing", "finished"}
    /\ gameData.correctWordCount = 1
    /\ \E i \in 1..Len(selectedWords) :
         /\ i <= Len(gameData.attempts)
         /\ selectedWords[i].word = <<"A", " ">>
         /\ gameData.attempts[i] = <<"a">>
         /\ i - 1 < gameData.currentWordIndex
         /\ i > 1

C29_Range ==
    gameData.timeLeft >= 0 /\ gameData.timeLeft <= TOTAL_TIME

C29_TickStep ==
    (gameData.gameState = "playing" /\ gameData.timeLeft > 0 /\ Tick) =>
        /\ gameData'.timeLeft = gameData.timeLeft - 1
        /\ gameData'.gameState = "playing"

C29_TimeoutStep ==
    TimerGameEnd =>
        /\ gameData.timeLeft = 0
        /\ gameData'.gameState = "finished"
        /\ gameData'.timeLeft = 0
        /\ gameData'.score = gameData.score
        /\ gameData'.correctWordCount = gameData.correctWordCount
        /\ gameData'.attempts = gameData.attempts
        /\ gameData'.attempts[gameData.currentWordIndex + 1] = <<>>

C29_Countdown ==
    [](C29_Range) /\ [][C29_TickStep /\ C29_TimeoutStep]_vars

\* C29 witness: a session ended by the timeout while a text was typed for
\* the second word: the text is still in userInput, its slot is empty
C29_Witness ==
    /\ gameData.gameState = "finished"
    /\ gameData.timeLeft = 0
    /\ gameData.currentWordIndex = 1
    /\ gameData.userInput # <<>>
    /\ gameData.attempts[2] = <<>>
    /\ staleKeydown

\* C30 (as claimed): with the timer running, every session that is Playing
\* is Finished at some later time, whatever the player does and also when
\* the page is reloaded while Playing.
C30_EventuallyFinished ==
    (gameData.gameState = "playing") ~> (gameData.gameState = "finished")

\* C30 (amended): with the timer running, every session that is Playing is
\* Finished at some later time, whatever the player does and also when the
\* page is reloaded on the day its snapshot is dated; the only other outcome
\* is that a page load on a later day discards the snapshot, which gives the
\* state a new date.
C30_FinishedUnlessStale ==
    \A d \in FirstDay..LastDay :
        (gameData.gameState = "playing" /\ gameData.date = d)
            ~> (gameData.gameState = "finished" \/ gameData.date # d)

\* C30 witness: the timeout has just ended a session on a page that was
\* reloaded while the session was Playing and is still fetching the pool
C30_Witness ==
    /\ gameData.gameState = "finished"
    /\ gameData.timeLeft = 0
    /\ staleKeydown
    /\ isLoading

\* C31: when at least 3 entries of the pool have the requested difficulty,
\* every word of the daily selection has that difficulty; when fewer than 3
\* have it, the selection is the first 3 entries of the whole pool, in the
\* order of the pool.
C31_DifficultyFilter ==
    [][ EvaluateDaily =>
          LET matching == {k \in 1..Len(allWords) :
                              allWords[k].difficulty = difficulty}
          IN  IF Cardinality(matching) >= 3
              THEN \A i \in 1..Len(selectedWords') :
                       selectedWords'[i].difficulty = difficulty
              ELSE /\ Len(selectedWords') = 3
                   /\ \A i \in 1..3 : selectedWords'[i] = allWords[i] ]_vars

\* C31 witness: a selection of easy words from the pool that also holds a
\* medium word, in an order other than that of the pool
C31_Witness ==
    /\ allWords = MixedPool
    /\ difficulty = "easy"
    /\ Len(selectedWords) = 3
    /\ \E i \in 1..3 : selectedWords[i] # allWords[i]

\* C32: a call of getTodayWords leaves the pool passed in with the same
\* entries in the same order, and the call of deterministicShuffle inside it
\* leaves the array it was given (the filtered list) as it was.
C32_InputNotMutated ==
    [][ CallGetTodayWords =>
          /\ allWords' = allWords
          /\ getTodayWordsCall(allWords, difficulty, viewerZone, today).filteredWords
                = filterByDifficulty(allWords, difficulty)
          /\ selectedWords' = getTodayWords(allWords', difficulty, viewerZone, today) ]_vars

\* C32 witness: the selection returned words in an order other than that of
\* the pool it was given
C32_Witness ==
    /\ allWords = MixedPool
    /\ difficulty = "easy"
    /\ Len(selectedWords) = WORDS_PER_GAME
    /\ selectedWords # SubSeq(filterByDifficulty(allWords, difficulty), 1, WORDS_PER_GAME)

\* C33: displayStreak returns currentStreak when lastPlayedDate is today or
\* the calendar day before today, and 0 otherwise, also when no date is
\* recorded.
C33_DisplayStreak ==
    displayStreak(streak, viewerZone, today) =
        IF streak.lastPlayedDate = today \/ streak.lastPlayedDate = today - 1
        THEN streak.currentStreak
        ELSE 0

\* C34: on the step that completes the first Daily session of a calendar
\* day, totalGamesPlayed grows by exactly 1, totalScore grows by exactly the
\* score of the Finished session, lastPlayedDate becomes that day, and
\* longestStreak becomes the larger of its previous value and the new
\* currentStreak.
C34_FirstCompletionRecorded ==
    [][ ( /\ gameMode = "daily"
          /\ ~dailyDoneToday
          /\ gameData.gameState = "playing"
          /\ gameData'.gameState = "finished" ) =>
            /\ streak'.totalGamesPlayed = streak.totalGamesPlayed + 1
            /\ streak'.totalScore = streak.totalScore + gameData'.score
            /\ streak'.lastPlayedDate = today
            /\ streak'.longestStreak =
                   Max(streak.longestStreak, streak'.currentStreak) ]_vars

\* C35: the mode picked at the start is the mode of the session.  Wherever
\* the Practice button can start a session, the session can get every
\* arrangement of words that the random practice shuffle can draw and runs
\* in practice mode; wherever the Daily button can start one, the session
\* gets exactly today's daily selection and runs in daily mode.
C35_ModePickedIsModePlayed ==
    ( /\ ModeSelectVisible
      /\ gameData.gameState = "ready"
      /\ Len(allWords) # 0
      /\ pendingTick = <<>> ) =>
        /\ \A words \in getPracticeWords(allWords, difficulty) :
             ENABLED ( /\ ClickPractice
                       /\ selectedWords' = words
                       /\ gameMode' = "practice"
                       /\ gameData'.gameState = "playing" )
        /\ ENABLED ( /\ ClickDaily
                     /\ selectedWords' = getTodayWords(allWords, difficulty,
                                                       viewerZone, today)
                     /\ gameMode' = "daily"
                     /\ gameData'.gameState = "playing" )

\* C36: in every state of a session (Playing or Finished, words loaded),
\* correctCount is the number of words whose attempts slot matches the word
\* under the trimmed, case-insensitive rule, and while Playing the score is
\* 50 * correctCount.
C36_CountMatchesAttempts ==
    ( /\ gameData.gameState \in {"playing", "finished"}
      /\ Len(selectedWords) = WORDS_PER_GAME
      /\ Len(gameData.attempts) = WORDS_PER_GAME ) =>
        /\ gameData.correctWordCount =
              Cardinality({i \in 1..WORDS_PER_GAME :
                  toLowerCase(trim(gameData.attempts[i]))
                      = toLowerCase(trim(selectedWords[i].word))})
        /\ gameData.gameState = "playing" =>
              gameData.score = 50 * gameData.correctWordCount

\* C37: whenever the results of a Finished session are on screen, the
\* number of pass glyphs in the result row and the number of pass glyphs in
\* the share summary both equal correctCount.
C37_GlyphsMatchCount ==
    (gameData.gameState = "finished" /\ ~isLoading) =>
        /\ rowPassCount(gameData.attempts, selectedWords)
              = gameData.correctWordCount
        /\ gridPassCount(gameData.attempts, correctWordsOf(selectedWords))
              = gameData.correctWordCount

\* C38: in every call of deterministicShuffle, for every seed and input
\* array, each value the generator produces lies in 0 .. 233279, each swap
\* index j satisfies 0 <= j <= i, the array returned is a permutation of
\* the input, and the words kept from it are pairwise distinct entries of
\* the input.
C38_ShuffleIsPermutation ==
    LET n == Len(shuffleCall.array)
    IN  /\ shuffleCall.phase = "drawn"
            => /\ shuffleCall.value \in 0 .. 233279
               /\ shuffleCall.j \in 0 .. shuffleCall.i
        /\ shuffleCall.phase = "returned"
            => /\ \E f \in [1..n -> 1..n] :
                    /\ \A a, b \in 1..n : a # b => f[a] # f[b]
                    /\ shuffleCall.shuffled = [k \in 1..n |-> shuffleCall.array[f[k]]]
               /\ Len(selectedWords) = (IF n < WORDS_PER_GAME THEN n ELSE WORDS_PER_GAME)
               /\ \E g \in [1..Len(selectedWords) -> 1..n] :
                    /\ \A a, b \in 1..Len(selectedWords) : a # b => g[a] # g[b]
                    /\ \A k \in 1..Len(selectedWords) :
                         selectedWords[k] = shuffleCall.array[g[k]]

\* C38 witness: a call on more than WORDS_PER_GAME entries has returned an
\* array in another order than the input
C38_Witness ==
    /\ shuffleCall.phase = "returned"
    /\ Len(shuffleCall.array) > WORDS_PER_GAME
    /\ shuffleCall.shuffled # shuffleCall.array
    /\ shuffleCall.seed > MaxSeed

====
